---- MODULE Spec2Model ----
(***************************************************************************)
(* ID-photo cropper (src/src/app/page.tsx): the size-constrained JPEG      *)
(* encoding search (encodeJpegUnder2MB, findBestSizeAndEncode,             *)
(* findBestSizeOnly), the crop geometry (autoAlign, nudgeFaceY) and the    *)
(* page's reactive state with its effects.                                  *)
(*                                                                         *)
(* JavaScript numbers are modelled as exact rationals [n, d] in lowest     *)
(* terms (d > 0): 0.5 is 1/2, 0.95 is 19/20, TARGET_AR is 3/4.             *)
(***************************************************************************)
EXTENDS Integers, Sequences, FiniteSets, TLC

(* ------------------------------ numbers ------------------------------ *)

Abs(x) == IF x < 0 THEN -x ELSE x

RECURSIVE GCD(_, _)
GCD(a, b) == IF b = 0 THEN a ELSE GCD(b, a % b)

\* The number n/d (d # 0), in lowest terms with a positive denominator.
Rat(n, d) ==
    LET s == IF d < 0 THEN -1 ELSE 1
        g == GCD(Abs(n), Abs(d))
    IN  [n |-> (s * n) \div g, d |-> (s * d) \div g]

Num(k) == [n |-> k, d |-> 1]

RAdd(x, y) == Rat(x.n * y.d + y.n * x.d, x.d * y.d)
RSub(x, y) == Rat(x.n * y.d - y.n * x.d, x.d * y.d)
RMul(x, y) == Rat(x.n * y.n, x.d * y.d)
RDiv(x, y) == Rat(x.n * y.d, x.d * y.n)
RNeg(x)    == [n |-> -x.n, d |-> x.d]
RLe(x, y)  == x.n * y.d <= y.n * x.d
RLt(x, y)  == x.n * y.d < y.n * x.d
RMax(x, y) == IF RLe(x, y) THEN y ELSE x
RMin(x, y) == IF RLe(x, y) THEN x ELSE y

\* Math.floor, as an integer (\div rounds towards minus infinity).
Floor(x) == x.n \div x.d
\* Math.round: the nearest integer, halves rounded up.
Round(x) == (2 * x.n + x.d) \div (2 * x.d)

IMax(a, b) == IF a >= b THEN a ELSE b
IMin(a, b) == IF a <= b THEN a ELSE b

(* ----------------------------- constants ----------------------------- *)

ASPECT_W == 3
ASPECT_H == 4
TARGET_AR == Rat(ASPECT_W, ASPECT_H)
MAX_BYTES == 2 * 1024 * 1024
DEFAULT_OUT_WIDTH == 360
DEFAULT_OUT_HEIGHT == 480
DEFAULT_FACE_Y_FRACTION == Rat(38, 100)
DESIRED_FACE_FRAC == Rat(48, 100)

\* The value of a `x | null` that is null.
Null == [null |-> TRUE]

(* --------------------------- model bounds ---------------------------- *)

\* Byte sizes the encoder may answer with: under, exactly at, and over the budget
\* (SizeSpread values on each side of MAX_BYTES).
SizeSpread == 1
Sizes == (MAX_BYTES - SizeSpread) .. (MAX_BYTES + SizeSpread)

\* Canvases handed to encodeJpegUnder2MB when it is checked on its own.
Canvases == { [w |-> 360, h |-> 480], [w |-> 1, h |-> 1] }

\* How many of the encoder's answers within one encodeJpegUnder2MB call made by
\* a resolution search are free: the answers to calls 1..EncFree and to the
\* fall-back call (the 9th) are any of Sizes, calls EncFree+1..8 share one answer.
EncFree == 1

\* Crop regions (Area, in source pixels) handed to the resolution searches.
Area(x, y, width, height) == [x |-> x, y |-> y, width |-> width, height |-> height]
Crops ==
    { Area(Num(0), Num(0), Num(1200), Num(1600)),
      Area(Num(10), Num(20), Num(300), Num(400)),
      Area(Num(0), Num(0), Num(302), Num(402)),
      Area(Num(0), Num(5), Rat(601, 2), Num(401)),
      Area(Num(0), Num(0), Num(3), Num(4)),
      Area(Num(0), Num(0), Num(1), Num(1)) }

\* Files the user may pick: the raster's natural size, the face box a face
\* detector finds in it (Null: none), and whether it is a HEIC container.
Box(x, y, width, height) ==
    [x |-> Num(x), y |-> Num(y), width |-> Num(width), height |-> Num(height)]
Files ==
    { [name |-> "square.png", W |-> 1000, H |-> 1000, face |-> Null, heic |-> FALSE],
      [name |-> "phone.heic", W |-> 1001, H |-> 1400,
       face |-> Box(400, 300, 200, 300), heic |-> TRUE] }

\* How many of the inner searches' outcomes within one resolution search of the
\* page are free (see SearchOutcomes).
ScaleFree == 1

\* Rasters for the crop geometry: sizes around the 3:4 frame, with a face box
\* that is small, tall, off the raster, larger than the raster, flat, far away,
\* taller than the zoom-1 frame, or absent.
GeometryFiles ==
    { [name |-> "square.png", W |-> 1000, H |-> 1000, face |-> Null, heic |-> FALSE],
      [name |-> "tall.jpg", W |-> 1001, H |-> 1400,
       face |-> Box(400, 300, 200, 300), heic |-> FALSE],
      [name |-> "wide.jpg", W |-> 640, H |-> 480,
       face |-> Box(-100, -50, 900, 2000), heic |-> FALSE],
      [name |-> "icon.png", W |-> 30, H |-> 40,
       face |-> Box(25, 35, 10, 0), heic |-> FALSE],
      [name |-> "far.jpg", W |-> 600, H |-> 800,
       face |-> Box(290, 100, 20, 24), heic |-> FALSE],
      [name |-> "long.jpg", W |-> 300, H |-> 420,
       face |-> Box(100, 10, 100, 400), heic |-> FALSE] }

\* Object URLs createObjectURL may hand out for picked files in one run.
MaxPicks == 2
\* Sequence numbers the estimate effect may issue in one run.
MaxEstimates == 3

\* Positions of the zoom slider (min 1, max 5) and of the face slider
\* (min 0.32, max 0.44) that the user moves them to.
ZoomSteps == { Num(1), Num(5) }
FaceSteps == { Rat(32, 100), Rat(38, 100), Rat(44, 100) }
\* Crop offsets and zooms the Cropper reports while the user drags or pinches;
\* the Cropper is given no minZoom or maxZoom and keeps its zoom in [1, 3].
DragCrops == { [x |-> Num(-10), y |-> Num(-5)] }
PinchZooms == { Num(1) }
\* Crop regions the Cropper reports through onCropComplete.
CropAreas ==
    { Area(Num(10), Num(20), Num(300), Num(400)),
      Area(Num(0), Num(0), Num(1200), Num(1600)) }

\* Successful exports one run of the page may complete.
MaxExports == 2
\* Actions the user may perform in one run of the page, where they are counted.
MaxUserActions == 4

VARIABLES
    enc,    \* the running encodeJpegUnder2MB invocation (checked on its own)
    find,   \* the running findBestSizeAndEncode invocation (checked on its own)
    ui,     \* the Page component: its state, its refs and what it has in flight
    user    \* how many actions the user has performed (counted where bounded)

vars == << enc, find, ui, user >>

(* ------------------------ encodeJpegUnder2MB ------------------------- *)

\* makeJpegBlob(canvas, q): the encoder's blob; its byte size is the encoder's
\* choice. The blob remembers what was encoded (canvas size and quality).
makeJpegBlob(canvas, q, size) == [size |-> size, canvas |-> canvas, q |-> q]

\* let lo = 0.5, hi = 0.95; let best = null; (i = 0)
\* log is the history of the blobs makeJpegBlob returned to this invocation.
EncStart(canvas) ==
    [pc |-> "loop", canvas |-> canvas, lo |-> Rat(1, 2), hi |-> Rat(19, 20),
     i |-> 0, best |-> Null, log |-> << >>]

EncIdle == [pc |-> "idle"]

\* One iteration of the loop: q = (lo + hi) / 2; blob = await makeJpegBlob(canvas, q);
\* if (blob.size <= MAX_BYTES) { best = { blob, q }; lo = q; } else { hi = q; }
EncIterAlwaysBest(st, size) ==
    LET q    == RDiv(RAdd(st.lo, st.hi), Num(2))
        blob == makeJpegBlob(st.canvas, q, size)
    IN  IF blob.size <= MAX_BYTES
        THEN [st EXCEPT !.best = [blob |-> blob, q |-> q], !.lo = q,
                        !.i = @ + 1, !.log = Append(@, blob)]
        ELSE [st EXCEPT !.best = [blob |-> blob, q |-> q], !.hi = q,
                        !.i = @ + 1, !.log = Append(@, blob)]

EncIterWrongWay(st, size) ==
    LET q    == RDiv(RAdd(st.lo, st.hi), Num(2))
        blob == makeJpegBlob(st.canvas, q, size)
    IN  IF blob.size <= MAX_BYTES
        THEN [st EXCEPT !.best = [blob |-> blob, q |-> q], !.hi = q,
                        !.i = @ + 1, !.log = Append(@, blob)]
        ELSE [st EXCEPT !.lo = q, !.i = @ + 1, !.log = Append(@, blob)]

EncIterRetryOnMiss(st, size) ==
    LET q    == RDiv(RAdd(st.lo, st.hi), Num(2))
        blob == makeJpegBlob(st.canvas, q, size)
    IN  IF blob.size <= MAX_BYTES
        THEN [st EXCEPT !.best = [blob |-> blob, q |-> q], !.lo = q,
                        !.i = @ + 1, !.log = Append(@, blob)]
        ELSE [st EXCEPT !.hi = q, !.log = Append(@, blob)]

EncIter(st, size) ==
    LET q    == RDiv(RAdd(st.lo, st.hi), Num(2))
        blob == makeJpegBlob(st.canvas, q, size)
    IN  IF blob.size <= MAX_BYTES
        THEN [st EXCEPT !.best = [blob |-> blob, q |-> q], !.lo = q,
                        !.i = @ + 1, !.log = Append(@, blob)]
        ELSE [st EXCEPT !.hi = q, !.i = @ + 1, !.log = Append(@, blob)]

\* After the loop: if (!best) { blob = await makeJpegBlob(canvas, 0.5);
\* best = { blob, q: 0.5 }; } return best;
EncFinishNoRetry(st, size) ==
    IF st.best = Null
    THEN [st EXCEPT !.pc = "done",
                    !.best = [blob |-> st.log[Len(st.log)], q |-> Rat(1, 2)]]
    ELSE [st EXCEPT !.pc = "done"]

EncFinish(st, size) ==
    IF st.best = Null
    THEN LET blob == makeJpegBlob(st.canvas, Rat(1, 2), size)
         IN  [st EXCEPT !.pc = "done", !.best = [blob |-> blob, q |-> Rat(1, 2)],
                        !.log = Append(@, blob)]
    ELSE [st EXCEPT !.pc = "done"]

\* for (let i = 0; i < 8; i++)
ENC_ITERATIONS == 8

\* One await of makeJpegBlob inside the loop.
EncLoopStep ==
    /\ enc.pc = "loop"
    /\ enc.i < ENC_ITERATIONS
    /\ \E size \in Sizes : enc' = EncIter(enc, size)

\* The loop has ended with a best: return it.
EncReturn ==
    /\ enc.pc = "loop"
    /\ enc.i = ENC_ITERATIONS
    /\ enc.best # Null
    /\ enc' = EncFinish(enc, MAX_BYTES)

\* The loop has ended without a best: one more encode at 0.5, returned whatever
\* its size.
EncFallback ==
    /\ enc.pc = "loop"
    /\ enc.i = ENC_ITERATIONS
    /\ enc.best = Null
    /\ \E size \in Sizes : enc' = EncFinish(enc, size)

FindIdle == [pc |-> "idle"]

InitEncode ==
    /\ \E canvas \in Canvases : enc = EncStart(canvas)
    /\ find = FindIdle
    /\ ui = Null
    /\ user = 0

NextEncode ==
    \/ EncLoopStep /\ UNCHANGED << find, ui, user >>
    \/ EncReturn /\ UNCHANGED << find, ui, user >>
    \/ EncFallback /\ UNCHANGED << find, ui, user >>

\* encodeJpegUnder2MB on its own, against an encoder free to answer any size
\* to every call.
SpecEncode == InitEncode /\ [][NextEncode]_vars

(* ---------------- encodeJpegUnder2MB as one awaited call ------------- *)

\* What the encoder answers to the calls of one encodeJpegUnder2MB invocation:
\* answers[k] is the byte size of the blob of the k-th makeJpegBlob call.
EncoderAnswers ==
    { [k \in 1 .. (ENC_ITERATIONS + 1) |->
          IF k <= EncFree THEN head[k]
          ELSE IF k <= ENC_ITERATIONS THEN tail ELSE last] :
      head \in [1 .. EncFree -> Sizes], tail \in Sizes, last \in Sizes }

RECURSIVE EncRun(_, _)
EncRun(st, answers) ==
    IF st.pc = "done" THEN st
    ELSE IF st.i < ENC_ITERATIONS
         THEN EncRun(EncIter(st, answers[st.i + 1]), answers)
         ELSE EncRun(EncFinish(st, answers[ENC_ITERATIONS + 1]), answers)

\* await encodeJpegUnder2MB(canvas): the { blob, q } it returns when the encoder
\* answers its calls with `answers`.
encodeJpegUnder2MB(canvas, answers) == EncRun(EncStart(canvas), answers).best

\* Every { blob, q } one call can return. Nothing in the search reads the canvas,
\* which the blob only remembers: the outcomes are computed once, for a canvas
\* left open, and OnCanvas fills the canvas in.
EncodeOutcomes == { encodeJpegUnder2MB(Null, answers) : answers \in EncoderAnswers }

OnCanvas(e, canvas) == [blob |-> [e.blob EXCEPT !.canvas = canvas], q |-> e.q]

\* The most makeJpegBlob calls a call returning `e` can have made.
EncoderCalls ==
    [e \in EncodeOutcomes |->
        LET runs == { a \in EncoderAnswers : encodeJpegUnder2MB(Null, a) = e }
            lens == { Len(EncRun(EncStart(Null), a).log) : a \in runs }
        IN  CHOOSE n \in lens : \A k \in lens : k <= n]

(* ----------------------- findBestSizeAndEncode ----------------------- *)

\* for (let i = 0; i < 8; i++)
FIND_ITERATIONS == 8
\* Math.min(800, maxW)
FALLBACK_WIDTH == 800

\* srcW/maxW = Math.floor(cropPx.width), srcH/maxH = Math.floor(cropPx.height);
\* lo = 0.2, hi = 1.0, best = null.
\* maxFit (history): the sampled scale, size and encoding of the largest sampled
\* scale whose encoding fitted the budget so far; calls (history): the inner
\* searches awaited.
FindStart(cropPx) ==
    [pc |-> "loop", cropPx |-> cropPx,
     maxW |-> Floor(cropPx.width), maxH |-> Floor(cropPx.height),
     lo |-> Rat(2, 10), hi |-> Num(1), i |-> 0, best |-> Null,
     maxFit |-> Null, calls |-> 0]

\* s = (lo + hi) / 2
FindScaleAtHi(st) == st.hi

FindScale(st) == RDiv(RAdd(st.lo, st.hi), Num(2))

\* w = Math.max(1, Math.floor(maxW * s)), h = Math.max(1, Math.floor(maxH * s));
\* the canvas of that size with the crop region drawn into it.
FindCanvas(st) ==
    [w |-> IMax(1, Floor(RMul(Num(st.maxW), FindScale(st)))),
     h |-> IMax(1, Floor(RMul(Num(st.maxH), FindScale(st))))]

\* The history of the largest fitting sample, kept beside the loop.
NoteFit(st, s, c, e) ==
    IF e.blob.size <= MAX_BYTES /\ (st.maxFit = Null \/ RLt(st.maxFit.s, s))
    THEN [s |-> s, w |-> c.w, h |-> c.h, enc |-> e]
    ELSE st.maxFit

\* One iteration, `outcome` being what the awaited inner search returns:
\* enc = await encodeJpegUnder2MB(c);
\* if (enc.blob.size <= MAX_BYTES) { best = {blob, q, w, h}; lo = s } else { hi = s }
FindIterWrongWay(st, outcome) ==
    LET s == FindScale(st)
        c == FindCanvas(st)
        e == OnCanvas(outcome, c)
        n == [st EXCEPT !.i = @ + 1, !.calls = @ + 1, !.maxFit = NoteFit(st, s, c, e)]
    IN  IF e.blob.size <= MAX_BYTES
        THEN [n EXCEPT !.best = [blob |-> e.blob, q |-> e.q, w |-> c.w, h |-> c.h],
                       !.hi = s]
        ELSE [n EXCEPT !.lo = s]

FindIter(st, outcome) ==
    LET s == FindScale(st)
        c == FindCanvas(st)
        e == OnCanvas(outcome, c)
        n == [st EXCEPT !.i = @ + 1, !.calls = @ + 1, !.maxFit = NoteFit(st, s, c, e)]
    IN  IF e.blob.size <= MAX_BYTES
        THEN [n EXCEPT !.best = [blob |-> e.blob, q |-> e.q, w |-> c.w, h |-> c.h],
                       !.lo = s]
        ELSE [n EXCEPT !.hi = s]

\* if (!best) { targetW = Math.min(800, maxW);
\*              targetH = Math.round(targetW * (ASPECT_H / ASPECT_W)); ... }
FallbackCanvasFromCropHeight(maxW, maxH) ==
    [w |-> IMin(FALLBACK_WIDTH, maxW), h |-> IMin(FALLBACK_WIDTH, maxH)]

FallbackCanvas(maxW, maxH) ==
    LET targetW == IMin(FALLBACK_WIDTH, maxW)
    IN  [w |-> targetW,
         h |-> Round(RMul(Num(targetW), Rat(ASPECT_H, ASPECT_W)))]

\* After the loop: the fall-back branch when no sampled scale fitted; return best.
FindFinish(st, outcome) ==
    IF st.best = Null
    THEN LET c == FallbackCanvas(st.maxW, st.maxH)
             e == OnCanvas(outcome, c)
         IN  [st EXCEPT !.pc = "done", !.calls = @ + 1,
                        !.best = [blob |-> e.blob, q |-> e.q, w |-> c.w, h |-> c.h]]
    ELSE [st EXCEPT !.pc = "done"]

\* One iteration of the resolution loop (render, then the awaited inner search).
FindLoopStep ==
    /\ find.pc = "loop"
    /\ find.i < FIND_ITERATIONS
    /\ \E outcome \in EncodeOutcomes : find' = FindIter(find, outcome)

\* The loop has ended with a best: return it.
FindReturn ==
    /\ find.pc = "loop"
    /\ find.i = FIND_ITERATIONS
    /\ find.best # Null
    /\ find' = FindFinish(find, Null)

\* The loop has ended without a best: the fall-back size is rendered and encoded.
FindFallback ==
    /\ find.pc = "loop"
    /\ find.i = FIND_ITERATIONS
    /\ find.best = Null
    /\ \E outcome \in EncodeOutcomes : find' = FindFinish(find, outcome)

InitFind ==
    /\ enc = EncIdle
    /\ \E cropPx \in Crops : find = FindStart(cropPx)
    /\ ui = Null
    /\ user = 0

NextFind ==
    \/ FindLoopStep /\ UNCHANGED << enc, ui, user >>
    \/ FindReturn /\ UNCHANGED << enc, ui, user >>
    \/ FindFallback /\ UNCHANGED << enc, ui, user >>

\* findBestSizeAndEncode on its own: any crop region of Crops, the encoder free
\* to make each inner search fit or fail.
SpecFind == InitFind /\ [][NextFind]_vars

(* --------------------------- findBestSizeOnly ------------------------ *)

\* for (let i = 0; i < 6; i++)
SIZE_ONLY_ITERATIONS == 6

\* What the awaited inner searches of one resolution search return, one outcome
\* for each iteration: free at iterations 1..ScaleFree, one shared outcome after.
SearchOutcomes(n) ==
    { [k \in 1 .. n |-> IF k <= ScaleFree THEN head[k] ELSE tail] :
      head \in [1 .. ScaleFree -> EncodeOutcomes], tail \in EncodeOutcomes }

\* srcW/maxW, srcH/maxH, lo = 0.2, hi = 1.0, best = null
SizeOnlyStart(cropPx) ==
    [maxW |-> Floor(cropPx.width), maxH |-> Floor(cropPx.height),
     lo |-> Rat(2, 10), hi |-> Num(1), i |-> 0, best |-> Null]

\* One iteration (s, w, h and the canvas as in findBestSizeAndEncode):
\* if (enc.blob.size <= MAX_BYTES) { best = { w, h }; lo = s; } else { hi = s; }
SizeOnlyIter(st, outcome) ==
    LET s == FindScale(st)
        c == FindCanvas(st)
        e == OnCanvas(outcome, c)
    IN  IF e.blob.size <= MAX_BYTES
        THEN [st EXCEPT !.i = @ + 1, !.best = [w |-> c.w, h |-> c.h], !.lo = s]
        ELSE [st EXCEPT !.i = @ + 1, !.hi = s]

\* if (!best) { w = Math.min(800, maxW); h = Math.round(w * (ASPECT_H / ASPECT_W));
\*              return { w, h }; } return best;
SizeOnlyResult(st) ==
    IF st.best = Null
    THEN LET w == IMin(FALLBACK_WIDTH, st.maxW)
         IN  [w |-> w, h |-> Round(RMul(Num(w), Rat(ASPECT_H, ASPECT_W)))]
    ELSE st.best

RECURSIVE SizeOnlyRun(_, _)
SizeOnlyRun(st, outcomes) ==
    IF st.i < SIZE_ONLY_ITERATIONS
    THEN SizeOnlyRun(SizeOnlyIter(st, outcomes[st.i + 1]), outcomes)
    ELSE SizeOnlyResult(st)

\* await findBestSizeOnly(image, cropPx): the { w, h } it returns when its inner
\* searches return `outcomes`.
findBestSizeOnly(cropPx, outcomes) == SizeOnlyRun(SizeOnlyStart(cropPx), outcomes)

\* Every { w, h } an estimate of a crop region the Cropper reports can return.
SizeOnlyOutcomes ==
    [cropPx \in CropAreas |->
        { findBestSizeOnly(cropPx, outcomes) :
            outcomes \in SearchOutcomes(SIZE_ONLY_ITERATIONS) }]

\* findBestSizeOnly step by step: one awaited inner search after another, then
\* the return. searches (history) counts the inner searches awaited.
SizeOnlyLoopStep ==
    /\ find.pc = "sizeOnly"
    /\ find.st.i < SIZE_ONLY_ITERATIONS
    /\ \E outcome \in EncodeOutcomes :
          find' = [find EXCEPT !.st = SizeOnlyIter(find.st, outcome),
                               !.searches = @ + 1]

SizeOnlyReturn ==
    /\ find.pc = "sizeOnly"
    /\ find.st.i = SIZE_ONLY_ITERATIONS
    /\ find' = [find EXCEPT !.pc = "sizeOnlyDone", !.result = SizeOnlyResult(find.st)]

InitSizeOnly ==
    /\ enc = EncIdle
    /\ \E cropPx \in Crops :
          find = [pc |-> "sizeOnly", st |-> SizeOnlyStart(cropPx), searches |-> 0,
                  result |-> Null]
    /\ ui = Null
    /\ user = 0

NextSizeOnly ==
    \/ SizeOnlyLoopStep /\ UNCHANGED << enc, ui, user >>
    \/ SizeOnlyReturn /\ UNCHANGED << enc, ui, user >>

\* The three searches, each on its own: one of them starts, and runs to its
\* return against an encoder free in its answers.
InitSearches == InitEncode \/ InitFind \/ InitSizeOnly

NextSearches == NextEncode \/ NextFind \/ NextSizeOnly

SpecSearches == InitSearches /\ [][NextSearches]_vars

\* The preview estimate beside the export: findBestSizeOnly and
\* findBestSizeAndEncode search the same crop region against one encoder whose
\* blob size is a function of the canvas: canvases of at most `limit` pixels
\* encode within the budget at every quality, larger ones at none.
PixelLimits == { 0, 12, 90000, 2000000 }

EncodeBy(limit, canvas) ==
    LET size == IF canvas.w * canvas.h <= limit THEN MAX_BYTES ELSE MAX_BYTES + 1
    IN  OnCanvas(encodeJpegUnder2MB(Null, [k \in 1 .. (ENC_ITERATIONS + 1) |-> size]),
                 canvas)

PreviewSearchStep ==
    /\ find.pc = "both"
    /\ find.only.i < SIZE_ONLY_ITERATIONS
    /\ find' = [find EXCEPT
                  !.only = SizeOnlyIter(@, EncodeBy(find.limit, FindCanvas(@)))]

PreviewSearchReturn ==
    /\ find.pc = "both"
    /\ find.only.i = SIZE_ONLY_ITERATIONS
    /\ find.estimate = Null
    /\ find' = [find EXCEPT !.estimate = SizeOnlyResult(find.only)]

ExportSearchStep ==
    /\ find.pc = "both"
    /\ find.full.pc = "loop"
    /\ find.full.i < FIND_ITERATIONS
    /\ find' = [find EXCEPT
                  !.full = FindIter(@, EncodeBy(find.limit, FindCanvas(@)))]

ExportSearchReturn ==
    /\ find.pc = "both"
    /\ find.full.pc = "loop"
    /\ find.full.i = FIND_ITERATIONS
    /\ find.full.best # Null
    /\ find' = [find EXCEPT !.full = FindFinish(@, Null)]

ExportSearchFallback ==
    /\ find.pc = "both"
    /\ find.full.pc = "loop"
    /\ find.full.i = FIND_ITERATIONS
    /\ find.full.best = Null
    /\ find' = [find EXCEPT
                  !.full = FindFinish(@, EncodeBy(find.limit,
                                                  FallbackCanvas(@.maxW, @.maxH)))]

InitPreview ==
    /\ enc = EncIdle
    /\ \E cropPx \in Crops : \E limit \in PixelLimits :
          find = [pc |-> "both", limit |-> limit,
                  only |-> SizeOnlyStart(cropPx), estimate |-> Null,
                  full |-> FindStart(cropPx)]
    /\ ui = Null
    /\ user = 0

NextPreview ==
    \/ PreviewSearchStep /\ UNCHANGED << enc, ui, user >>
    \/ PreviewSearchReturn /\ UNCHANGED << enc, ui, user >>
    \/ ExportSearchStep /\ UNCHANGED << enc, ui, user >>
    \/ ExportSearchReturn /\ UNCHANGED << enc, ui, user >>
    \/ ExportSearchFallback /\ UNCHANGED << enc, ui, user >>

SpecPreview == InitPreview /\ [][NextPreview]_vars

(* ------------------------------ geometry ----------------------------- *)

\* An object URL of a picked file, and the Image element loading it.
NaturalWidth(img) == img.src.file.W
NaturalHeight(img) == img.src.file.H

\* baseH = (W / TARGET_AR <= H) ? Math.round(W / TARGET_AR) : H
BaseHFromWidth(W, H) == Round(RDiv(Num(W), TARGET_AR))

BaseH(W, H) ==
    IF RLe(RDiv(Num(W), TARGET_AR), Num(H)) THEN Round(RDiv(Num(W), TARGET_AR)) ELSE H

\* The same line in the fixed-size variant of the page, whose TARGET_AR is
\* TARGET_WIDTH / TARGET_HEIGHT.
TARGET_WIDTH == 320
TARGET_HEIGHT == 366
FixedSizeBaseH(W, H) ==
    LET ar == Rat(TARGET_WIDTH, TARGET_HEIGHT)
    IN  IF RLe(RDiv(Num(W), ar), Num(H)) THEN Round(RDiv(Num(W), ar)) ELSE H

\* Math.max(0, Math.min(v, limit))
Clamp(v, limit) == RMax(Num(0), RMin(v, limit))

\* offset = - (px / size) * 100
OffsetPercent(px, size) == RNeg(RMul(RDiv(px, Num(size)), Num(100)))

\* autoAlign after its await: from the raster size, the detected face (or Null)
\* and the faceYFrac of the render that called it, the zoom and crop it sets and
\* (view) the view rectangle it computed on the way.
autoAlignResultNoClamp(W, H, face, faceYFrac) ==
    LET baseH    == BaseH(W, H)
        desiredH == IF face # Null
                    THEN IMax(32, IMin(H, Round(RDiv(face.height, DESIRED_FACE_FRAC))))
                    ELSE baseH
        initZoom == Rat(baseH, desiredH)
        cx       == IF face # Null THEN RAdd(face.x, RDiv(face.width, Num(2)))
                                   ELSE Rat(W, 2)
        cy       == IF face # Null THEN RAdd(face.y, RDiv(face.height, Num(2)))
                                   ELSE Rat(H, 2)
        viewH    == RDiv(Num(baseH), initZoom)
        viewW    == RMul(viewH, TARGET_AR)
        left     == Clamp(RSub(cx, RDiv(viewW, Num(2))), RSub(Num(W), viewW))
        top      == Clamp(RSub(cy, RMul(faceYFrac, viewH)), RSub(Num(H), viewH))
    IN  [zoom |-> initZoom,
         crop |-> [x |-> OffsetPercent(left, W), y |-> OffsetPercent(top, H)],
         view |-> [W |-> W, H |-> H, left |-> left, top |-> top,
                   viewW |-> viewW, viewH |-> viewH,
                   baseH |-> baseH, zoom |-> initZoom]]

autoAlignResult(W, H, face, faceYFrac) ==
    LET baseH    == BaseH(W, H)
        desiredH == IF face # Null
                    THEN IMax(32, IMin(H, Round(RDiv(face.height, DESIRED_FACE_FRAC))))
                    ELSE baseH
        initZoom == RMax(Num(1), RMin(Num(5), Rat(baseH, desiredH)))
        cx       == IF face # Null THEN RAdd(face.x, RDiv(face.width, Num(2)))
                                   ELSE Rat(W, 2)
        cy       == IF face # Null THEN RAdd(face.y, RDiv(face.height, Num(2)))
                                   ELSE Rat(H, 2)
        viewH    == RDiv(Num(baseH), initZoom)
        viewW    == RMul(viewH, TARGET_AR)
        left     == Clamp(RSub(cx, RDiv(viewW, Num(2))), RSub(Num(W), viewW))
        top      == Clamp(RSub(cy, RMul(faceYFrac, viewH)), RSub(Num(H), viewH))
    IN  [zoom |-> initZoom,
         crop |-> [x |-> OffsetPercent(left, W), y |-> OffsetPercent(top, H)],
         view |-> [W |-> W, H |-> H, left |-> left, top |-> top,
                   viewW |-> viewW, viewH |-> viewH,
                   baseH |-> baseH, zoom |-> initZoom]]

\* The locals of nudgeFaceY(v) for a loaded raster: the view height, the current
\* left and the new top.
nudgeLocalsClampToHeight(s, v) ==
    LET W        == NaturalWidth(s.imgEl)
        H        == NaturalHeight(s.imgEl)
        baseH    == BaseH(W, H)
        viewH    == RDiv(Num(baseH), s.zoom)
        curLeft  == RMul(RMul(RNeg(s.crop.x), Rat(1, 100)), Num(W))
        curTop   == RMul(RMul(RNeg(s.crop.y), Rat(1, 100)), Num(H))
        cyApprox == RAdd(curTop, RMul(s.faceYFrac, viewH))
        newTop   == Clamp(RSub(cyApprox, RMul(v, viewH)), Num(H))
    IN  [W |-> W, H |-> H, viewH |-> viewH, curLeft |-> curLeft, newTop |-> newTop]

nudgeLocals(s, v) ==
    LET W        == NaturalWidth(s.imgEl)
        H        == NaturalHeight(s.imgEl)
        baseH    == BaseH(W, H)
        viewH    == RDiv(Num(baseH), s.zoom)
        curLeft  == RMul(RMul(RNeg(s.crop.x), Rat(1, 100)), Num(W))
        curTop   == RMul(RMul(RNeg(s.crop.y), Rat(1, 100)), Num(H))
        cyApprox == RAdd(curTop, RMul(s.faceYFrac, viewH))
        newTop   == Clamp(RSub(cyApprox, RMul(v, viewH)), RSub(Num(H), viewH))
    IN  [W |-> W, H |-> H, viewH |-> viewH, curLeft |-> curLeft, newTop |-> newTop]

\* nudgeFaceY(v) of the fixed-size variant (the same statements, its own
\* TARGET_AR), on the same raster, zoom, crop and previous fraction.
nudgeLocalsFixedSize(s, v) ==
    LET W        == NaturalWidth(s.imgEl)
        H        == NaturalHeight(s.imgEl)
        baseH    == FixedSizeBaseH(W, H)
        viewH    == RDiv(Num(baseH), s.zoom)
        curLeft  == RMul(RMul(RNeg(s.crop.x), Rat(1, 100)), Num(W))
        curTop   == RMul(RMul(RNeg(s.crop.y), Rat(1, 100)), Num(H))
        cyApprox == RAdd(curTop, RMul(s.faceYFrac, viewH))
        newTop   == Clamp(RSub(cyApprox, RMul(v, viewH)), RSub(Num(H), viewH))
    IN  [W |-> W, H |-> H, viewH |-> viewH, curLeft |-> curLeft, newTop |-> newTop]

(* ------------------------- the Page component ------------------------ *)

\* filename: the default `id-photo_${w}x${h}`, or a text the user typed.
DefaultName(w, h) == [text |-> "id-photo_WxH", w |-> w, h |-> h]
TypedName == [text |-> "typed"]

\* The state after the first render. React state (lines 60-78), the ref
\* estimateSeq, and what is in flight: loads (Image elements decoding), aligns
\* (autoAlign calls awaiting detectFace), converting (HEIC conversions), timers
\* (the pending setTimeouts), timer (the `t` of the estimate effect's last run,
\* which its cleanup clears; Null when that run returned early or `t` has
\* fired), running (estimates awaiting
\* findBestSizeOnly), exports (doExport invocations awaiting
\* findBestSizeAndEncode). urls counts the object URLs handed out
\* for picked files, retained holds those the page has not revoked.
\* unhandled: an exception has escaped an async callback of the page.
\* History: view (the view rectangle of the last finished autoAlign), nudged
\* (the locals of the last nudgeFaceY and the zoom and crop.x before it, while
\* no other user action follows it), estimated (the estimates that have
\* finished, in order, each with the sequence number current at that moment),
\* exported (the exports that have succeeded, in order: what was exported, what
\* the inner searches returned, and the chosen size and quality).
UiStart ==
    [srcUrl |-> Null, imgEl |-> Null, crop |-> [x |-> Num(0), y |-> Num(0)],
     zoom |-> Num(1), croppedAreaPx |-> Null, faceYFrac |-> DEFAULT_FACE_Y_FRACTION,
     outUrl |-> Null, outInfo |-> Null, outBlob |-> Null, busy |-> FALSE, msg |-> "",
     outWidth |-> DEFAULT_OUT_WIDTH, outHeight |-> DEFAULT_OUT_HEIGHT,
     filename |-> DefaultName(DEFAULT_OUT_WIDTH, DEFAULT_OUT_HEIGHT),
     userEditedName |-> FALSE,
     estimateSeq |-> 0,
     loads |-> {}, aligns |-> {}, converting |-> {}, timers |-> {}, timer |-> Null,
     running |-> {},
     urls |-> 0, retained |-> {}, exports |-> {}, unhandled |-> FALSE,
     view |-> Null, nudged |-> Null, estimated |-> << >>, exported |-> << >>]

\* Nothing the page has started is still in flight.
Settled(s) ==
    /\ s.loads = {} /\ s.aligns = {} /\ s.converting = {}
    /\ s.timers = {} /\ s.running = {} /\ s.exports = {}

\* The effects of one commit, `prev` being the render committed before `s`:
\*   the image-load effect, deps [srcUrl]: a new Image starts decoding srcUrl; its
\*     cleanup (when the previous run had a srcUrl) calls setImgEl(null);
\*   the effect `if (imgEl) autoAlign()`, deps [imgEl, autoAlign], autoAlign being
\*     re-created when imgEl or faceYFrac changes: autoAlign runs up to its await;
\*   the estimate effect, deps [imgEl, croppedAreaPx, findBestSizeOnly,
\*     userEditedName]: its cleanup, clearTimeout(t), removes the timer of its
\*     last run; its body issues the next sequence number and sets the 200 ms
\*     timer.
\* A state update made by a cleanup is rendered and committed in turn.
RECURSIVE RunEffects(_, _)
RunEffectsNoCleanup(prev, s) ==
    LET loadRuns  == s.srcUrl # prev.srcUrl
        alignRuns == s.imgEl # prev.imgEl \/ s.faceYFrac # prev.faceYFrac
        estRuns   == \/ s.imgEl # prev.imgEl
                     \/ s.croppedAreaPx # prev.croppedAreaPx
                     \/ s.userEditedName # prev.userEditedName
        a == IF loadRuns /\ s.srcUrl # Null
             THEN [s EXCEPT !.loads = @ \cup {s.srcUrl}] ELSE s
        b == IF alignRuns /\ s.imgEl # Null
             THEN [a EXCEPT !.aligns = @ \cup {[img |-> s.imgEl, faceYFrac |-> s.faceYFrac]}]
             ELSE a
        t == [seq |-> s.estimateSeq + 1, img |-> s.imgEl, cropPx |-> s.croppedAreaPx,
              userEditedName |-> s.userEditedName]
        c == IF ~estRuns THEN b
             ELSE IF s.imgEl = Null \/ s.croppedAreaPx = Null
                  THEN [b EXCEPT !.timer = Null]
                  ELSE [b EXCEPT !.estimateSeq = @ + 1,
                                 !.timers = @ \cup {t}, !.timer = t]
    IN  IF loadRuns /\ prev.srcUrl # Null /\ c.imgEl # Null
        THEN RunEffects(c, [c EXCEPT !.imgEl = Null])
        ELSE c

RunEffects(prev, s) ==
    LET loadRuns  == s.srcUrl # prev.srcUrl
        alignRuns == s.imgEl # prev.imgEl \/ s.faceYFrac # prev.faceYFrac
        estRuns   == \/ s.imgEl # prev.imgEl
                     \/ s.croppedAreaPx # prev.croppedAreaPx
                     \/ s.userEditedName # prev.userEditedName
        a == IF loadRuns /\ s.srcUrl # Null
             THEN [s EXCEPT !.loads = @ \cup {s.srcUrl}] ELSE s
        b == IF alignRuns /\ s.imgEl # Null
             THEN [a EXCEPT !.aligns = @ \cup {[img |-> s.imgEl, faceYFrac |-> s.faceYFrac]}]
             ELSE a
        t == [seq |-> s.estimateSeq + 1, img |-> s.imgEl, cropPx |-> s.croppedAreaPx,
              userEditedName |-> s.userEditedName]
        c == IF ~estRuns THEN b
             ELSE IF s.imgEl = Null \/ s.croppedAreaPx = Null
                  THEN [b EXCEPT !.timers = @ \ {s.timer}, !.timer = Null]
                  ELSE [b EXCEPT !.estimateSeq = @ + 1,
                                 !.timers = (@ \ {s.timer}) \cup {t}, !.timer = t]
    IN  IF loadRuns /\ prev.srcUrl # Null /\ c.imgEl # Null
        THEN RunEffects(c, [c EXCEPT !.imgEl = Null])
        ELSE c

\* A step of the page: the handler's state updates `s` are rendered and the
\* effects of that commit run. The run stays within the model's bounds.
Commit(s) ==
    /\ ui' = RunEffects(ui, s)
    /\ ui'.estimateSeq <= MaxEstimates
    /\ ui'.urls <= MaxPicks
    /\ UNCHANGED << enc, find >>

\* URL.createObjectURL(blob): a URL not handed out before.
createObjectURL(s, file) == [id |-> s.urls + 1, file |-> file]

\* onPick: setOutUrl(null); setOutInfo(null); setMsg(''); no file: return.
\* A HEIC file: setMsg('converting') and the conversion is awaited.
\* Any other file: setSrcUrl(URL.createObjectURL(f)).
onPick(s, f) ==
    LET s1 == [s EXCEPT !.outUrl = Null, !.outInfo = Null, !.msg = "", !.nudged = Null]
    IN  IF f = Null THEN s1
        ELSE IF f.heic
             THEN [s1 EXCEPT !.msg = "converting", !.converting = @ \cup {f}]
             ELSE [s1 EXCEPT !.srcUrl = createObjectURL(s, f), !.urls = @ + 1,
                             !.retained = @ \cup {createObjectURL(s, f)}]

\* The awaited heic2any has returned a blob: setSrcUrl(URL.createObjectURL(blob));
\* setMsg('').
onPickConverted(s, f) ==
    [s EXCEPT !.converting = @ \ {f}, !.srcUrl = createObjectURL(s, f),
              !.urls = @ + 1, !.retained = @ \cup {createObjectURL(s, f)},
              !.msg = ""]

\* The import or heic2any has thrown: setMsg('HEIC failed').
onPickConvertFailed(s, f) ==
    [s EXCEPT !.converting = @ \ {f}, !.msg = "heic failed"]

\* img.onload = () => setImgEl(img), of the Image created for `url`.
onload(s, url) == [s EXCEPT !.loads = @ \ {url}, !.imgEl = [src |-> url]]

\* The button: autoAlign() of the current render, up to its await.
autoAlignClick(s) ==
    [s EXCEPT !.aligns = @ \cup {[img |-> s.imgEl, faceYFrac |-> s.faceYFrac]},
              !.nudged = Null]

\* What the browser's face detector does when detectFace turns to it: there is
\* no window.FaceDetector ("absent"), detect() resolves without a face ("none"),
\* the constructor or detect() throws ("throws"), or detect() resolves with the
\* face of the picture ("found").
DetectorFailures == {"absent", "none", "throws"}

DetectorAnswers(img) ==
    DetectorFailures \cup (IF img.src.file.face # Null THEN {"found"} ELSE {})

\* detectFace(source): try { if (FaceDetector is a function) { faces = await
\* det.detect(source); if (faces[0]?.boundingBox) return its box } } catch {}
\* return null. threw: the call rejected instead of resolving.
detectFaceNoCatch(img, answer) ==
    [threw |-> answer = "throws",
     face  |-> IF answer = "found" THEN img.src.file.face ELSE Null]

detectFace(img, answer) ==
    [threw |-> FALSE,
     face  |-> IF answer = "found" THEN img.src.file.face ELSE Null]

\* autoAlign after `await detectFace(imgEl)`: setZoom(initZoom);
\* setCrop({ x: offsetX, y: offsetY }). The effect and the button call it without
\* a catch: a rejected await ends it before either setter.
autoAlign(s, call, answer) ==
    LET d == detectFace(call.img, answer)
        r == autoAlignResult(NaturalWidth(call.img), NaturalHeight(call.img),
                             d.face, call.faceYFrac)
    IN  IF d.threw
        THEN [s EXCEPT !.aligns = @ \ {call}, !.unhandled = TRUE]
        ELSE [s EXCEPT !.aligns = @ \ {call}, !.zoom = r.zoom, !.crop = r.crop,
                       !.view = r.view]

\* nudgeFaceY(v): setFaceYFrac(v); if (!imgEl) return;
\* setCrop({ x: -(curLeft / W) * 100, y: -(newTop / H) * 100 }).
nudgeFaceY(s, v) ==
    LET s1 == [s EXCEPT !.faceYFrac = v, !.nudged = Null]
    IN  IF s.imgEl = Null THEN s1
        ELSE LET l == nudgeLocals(s, v)
             IN  [s1 EXCEPT !.crop = [x |-> OffsetPercent(l.curLeft, l.W),
                                      y |-> OffsetPercent(l.newTop, l.H)],
                            !.nudged = [zoom |-> s.zoom, x |-> s.crop.x,
                                        settled |-> Settled(s), v |-> v,
                                        H |-> l.H, viewH |-> l.viewH,
                                        top |-> l.newTop,
                                        fixedSize |-> nudgeLocalsFixedSize(s, v)]]

\* The zoom slider, and the Cropper's onZoomChange: setZoom(z).
setZoom(s, z) == [s EXCEPT !.zoom = z, !.nudged = Null]
\* The Cropper's onCropChange: setCrop(c).
setCrop(s, c) == [s EXCEPT !.crop = c, !.nudged = Null]
\* onCropComplete(_area, areaPx): setCroppedAreaPx(areaPx).
onCropComplete(s, areaPx) == [s EXCEPT !.croppedAreaPx = areaPx]
\* The file-name input: setFilename(e.target.value); setUserEditedName(true).
onFilenameChange(s) == [s EXCEPT !.filename = TypedName, !.userEditedName = TRUE]

\* clearAll: setSrcUrl(null); setImgEl(null); setOutUrl(null); setOutInfo(null);
\* setMsg(''); setZoom(1); setCrop({x: 0, y: 0}); setFaceYFrac(DEFAULT).
clearAll(s) ==
    [s EXCEPT !.srcUrl = Null, !.imgEl = Null, !.outUrl = Null, !.outInfo = Null,
              !.msg = "", !.zoom = Num(1), !.crop = [x |-> Num(0), y |-> Num(0)],
              !.faceYFrac = DEFAULT_FACE_Y_FRACTION, !.nudged = Null]

\* The estimate effect's timer fires: findBestSizeOnly(imgEl, croppedAreaPx) of
\* the render that set it starts and is awaited.
estimateTimer(s, t) ==
    [s EXCEPT !.running = @ \cup {t}, !.timers = @ \ {t},
              !.timer = IF @ = t THEN Null ELSE @]

\* The awaited findBestSizeOnly has returned `best` to the estimate `e`:
\* if (estimateSeq.current !== mySeq) return; setOutWidth(best.w);
\* setOutHeight(best.h); if (!userEditedName) setFilename(...).
estimateDoneUnchecked(s, e, best) ==
    LET s1 == [s EXCEPT !.running = @ \ {e},
                        !.estimated = Append(@, [seq |-> e.seq, current |-> s.estimateSeq,
                                                 applied |-> TRUE])]
    IN  [s1 EXCEPT !.outWidth = best.w, !.outHeight = best.h,
                   !.filename = IF e.userEditedName THEN @ ELSE DefaultName(best.w, best.h)]

estimateDone(s, e, best) ==
    LET s1 == [s EXCEPT !.running = @ \ {e},
                        !.estimated = Append(@, [seq |-> e.seq, current |-> s.estimateSeq,
                                                 applied |-> s.estimateSeq = e.seq])]
    IN  IF s.estimateSeq # e.seq THEN s1
        ELSE [s1 EXCEPT !.outWidth = best.w, !.outHeight = best.h,
                        !.filename = IF e.userEditedName THEN @
                                     ELSE DefaultName(best.w, best.h)]

\* The awaited findBestSizeOnly has thrown: catch {} - nothing is written.
estimateFailed(s, e) == [s EXCEPT !.running = @ \ {e}]

\* What the inner searches return to an export of the page: a result that fits
\* exactly at the highest sampled quality, the fall-back result at 0.5 that fits
\* exactly, and the fall-back result that is over the budget.
ExportOutcomes ==
    { e \in EncodeOutcomes :
        /\ e.blob.size >= MAX_BYTES
        /\ \A o \in EncodeOutcomes : RLe(o.q, e.q) \/ e.q = Rat(1, 2) }

\* The export button: disabled={!srcUrl || !imgEl || !croppedAreaPx || busy}.
ExportEnabledWhileBusy(s) ==
    s.srcUrl # Null /\ s.imgEl # Null /\ s.croppedAreaPx # Null

ExportEnabled(s) ==
    s.srcUrl # Null /\ s.imgEl # Null /\ s.croppedAreaPx # Null /\ ~s.busy

\* catch (e) { setMsg('failed') } finally { setBusy(false) }
exportCatchKeepsBusy(s) == [s EXCEPT !.msg = "export failed"]

exportCatch(s) == [s EXCEPT !.msg = "export failed", !.busy = FALSE]

\* doExport up to its await: if (!imgEl || !croppedAreaPx) return; setBusy(true);
\* setMsg('exporting'); findBestSizeAndEncode(imgEl, croppedAreaPx) renders its
\* first canvas and awaits the inner search. `renders` is FALSE when that first
\* render throws: the catch and the finally run in the same turn.
\* An invocation: the image and crop region of the render that was clicked, the
\* state of its findBestSizeAndEncode, what the inner searches have returned so
\* far, and how many canvases it has rendered.
doExportAtDisplayedSize(s, renders) ==
    IF s.imgEl = Null \/ s.croppedAreaPx = Null THEN s
    ELSE IF ~renders THEN exportCatch([s EXCEPT !.busy = TRUE, !.msg = "exporting"])
    ELSE [s EXCEPT !.busy = TRUE, !.msg = "exporting",
                   !.exports = @ \cup {[img |-> s.imgEl, cropPx |-> s.croppedAreaPx,
                                        st |-> FindStart([s.croppedAreaPx EXCEPT
                                                 !.width = RMin(@, Num(s.outWidth)),
                                                 !.height = RMin(@, Num(s.outHeight))]),
                                        answers |-> << >>, renders |-> 1]}]

doExport(s, renders) ==
    IF s.imgEl = Null \/ s.croppedAreaPx = Null THEN s
    ELSE IF ~renders THEN exportCatch([s EXCEPT !.busy = TRUE, !.msg = "exporting"])
    ELSE [s EXCEPT !.busy = TRUE, !.msg = "exporting",
                   !.exports = @ \cup {[img |-> s.imgEl, cropPx |-> s.croppedAreaPx,
                                        st |-> FindStart(s.croppedAreaPx),
                                        answers |-> << >>, renders |-> 1]}]

\* The awaited inner search of the invocation returns `outcome`: the loop body
\* after the await, or the fall-back branch after its await; the loop's end.
exportAdvance(inv, outcome) ==
    LET st1 == IF inv.st.i < FIND_ITERATIONS THEN FindIter(inv.st, outcome)
               ELSE FindFinish(inv.st, outcome)
        st2 == IF st1.pc = "loop" /\ st1.i = FIND_ITERATIONS /\ st1.best # Null
               THEN FindFinish(st1, Null) ELSE st1
    IN  [inv EXCEPT !.st = st2, !.answers = Append(@, outcome),
                    !.renders = IF st2.pc = "done" THEN @ ELSE @ + 1]

\* doExport after `await findBestSizeAndEncode` has returned best:
\* setOutUrl(URL.createObjectURL(best.blob)); setOutInfo({bytes, q});
\* setOutBlob(best.blob); setOutWidth(best.w); setOutHeight(best.h);
\* setMsg('done'); finally setBusy(false).
exportDone(s, inv, fin) ==
    LET best == fin.st.best
    IN  [s EXCEPT !.exports = @ \ {inv},
                  !.outUrl = [blob |-> best.blob],
                  !.outInfo = [bytes |-> best.blob.size, q |-> best.q],
                  !.outBlob = best.blob,
                  !.outWidth = best.w, !.outHeight = best.h,
                  !.msg = "done", !.busy = FALSE,
                  !.exported = Append(@, [img |-> inv.img, cropPx |-> inv.cropPx,
                                          answers |-> fin.answers,
                                          w |-> best.w, h |-> best.h, q |-> best.q])]

\* The inner search the invocation awaits has returned `outcome`.
exportEncoded(s, inv, outcome) ==
    LET next == exportAdvance(inv, outcome)
    IN  IF next.st.pc = "done" THEN exportDone(s, inv, next)
        ELSE [s EXCEPT !.exports = (@ \ {inv}) \cup {next}]

\* A render or an encode of the invocation throws: the catch and the finally.
exportThrow(s, inv) == exportCatch([s EXCEPT !.exports = @ \ {inv}])

\* The download button (disabled={!outUrl && !outBlob}) and onDownload:
\* if (!outBlob && !outUrl) return; url = outBlob ? createObjectURL(outBlob) :
\* outUrl. What the click downloads (Null: nothing).
onDownload(s) ==
    IF s.outBlob = Null /\ s.outUrl = Null THEN Null
    ELSE IF s.outBlob # Null THEN [blob |-> s.outBlob] ELSE s.outUrl

\* The save button (disabled={!outBlob}) and onMobileSave: if (!outBlob) return;
\* what is shared or written (Null: nothing).
onMobileSave(s) == s.outBlob

(* actions *)

Pick == \E f \in Files \cup {Null} : Commit(onPick(ui, f))

PickConverted == \E f \in ui.converting : Commit(onPickConverted(ui, f))

PickConvertFailed == \E f \in ui.converting : Commit(onPickConvertFailed(ui, f))

ImageLoaded == \E url \in ui.loads : Commit(onload(ui, url))

AutoAlignClick == ui.imgEl # Null /\ Commit(autoAlignClick(ui))

\* The detectFace an autoAlign call awaits settles.
AutoAlignDone ==
    \E call \in ui.aligns : \E answer \in DetectorAnswers(call.img) :
        Commit(autoAlign(ui, call, answer))

NudgeFaceY == \E v \in FaceSteps : Commit(nudgeFaceY(ui, v))

ZoomSlider == \E z \in ZoomSteps : Commit(setZoom(ui, z))

\* The Cropper is rendered while srcUrl is set.
CropperZoom == ui.srcUrl # Null /\ \E z \in PinchZooms : Commit(setZoom(ui, z))

CropperDrag == ui.srcUrl # Null /\ \E c \in DragCrops : Commit(setCrop(ui, c))

CropperComplete ==
    ui.srcUrl # Null /\ \E areaPx \in CropAreas : Commit(onCropComplete(ui, areaPx))

FilenameChange == Commit(onFilenameChange(ui))

ClearAll == Commit(clearAll(ui))

EstimateTimer == \E t \in ui.timers : Commit(estimateTimer(ui, t))

EstimateDone ==
    \E e \in ui.running : \E best \in SizeOnlyOutcomes[e.cropPx] :
        Commit(estimateDone(ui, e, best))

EstimateFailed == \E e \in ui.running : Commit(estimateFailed(ui, e))

\* The export button is clicked; the first render succeeds or throws.
ExportClick ==
    /\ ExportEnabled(ui)
    /\ Len(ui.exported) < MaxExports
    /\ \E renders \in BOOLEAN : Commit(doExport(ui, renders))

\* An inner search returns. Of the outcomes one export sees, those of its first
\* ScaleFree searches and one more are free; the later ones repeat the last.
ExportEncoded ==
    \E inv \in ui.exports : \E outcome \in ExportOutcomes :
        /\ IF Len(inv.answers) <= ScaleFree THEN TRUE
           ELSE outcome = inv.answers[Len(inv.answers)]
        /\ Commit(exportEncoded(ui, inv, outcome))

ExportThrow == \E inv \in ui.exports : Commit(exportThrow(ui, inv))

\* The page after `f` has been picked and its Image has loaded: the autoAlign
\* the load's commit called is awaiting detectFace.
Loaded(f) ==
    LET picked == RunEffects(UiStart, onPick(UiStart, f))
    IN  RunEffects(picked, onload(picked, picked.srcUrl))

\* The crop geometry: a raster of GeometryFiles is loaded, and the user moves the
\* sliders, drags and pinches in the Cropper, clicks auto-align and clears,
\* while the autoAlign calls finish in any order.
InitGeometry ==
    /\ enc = EncIdle
    /\ find = FindIdle
    /\ \E f \in GeometryFiles : ui = Loaded(f)
    /\ user = 0

NextGeometry ==
    \/ AutoAlignClick /\ UNCHANGED user
    \/ AutoAlignDone /\ UNCHANGED user
    \/ NudgeFaceY /\ UNCHANGED user
    \/ CropperZoom /\ UNCHANGED user
    \/ ZoomSlider /\ UNCHANGED user
    \/ CropperDrag /\ UNCHANGED user
    \/ ClearAll /\ UNCHANGED user

SpecGeometry == InitGeometry /\ [][NextGeometry]_vars

\* The preview estimates: the page from its first render; the user picks files,
\* clears, edits the file name, and the Cropper reports crop regions, while
\* loads, conversions, timers and estimates finish in any order.
InitEstimate ==
    /\ enc = EncIdle
    /\ find = FindIdle
    /\ ui = UiStart
    /\ user = 0

NextEstimate ==
    \/ Pick /\ UNCHANGED user
    \/ PickConverted /\ UNCHANGED user
    \/ PickConvertFailed /\ UNCHANGED user
    \/ ImageLoaded /\ UNCHANGED user
    \/ CropperComplete /\ UNCHANGED user
    \/ FilenameChange /\ UNCHANGED user
    \/ ClearAll /\ UNCHANGED user
    \/ EstimateTimer /\ UNCHANGED user
    \/ EstimateDone /\ UNCHANGED user
    \/ EstimateFailed /\ UNCHANGED user

SpecEstimate == InitEstimate /\ [][NextEstimate]_vars

\* Exporting: the page from its first render; the user picks files, clears,
\* moves the face slider and clicks export, and the Cropper reports crop regions
\* (MaxUserActions user actions at most), while loads, conversions and the
\* searches of an export finish or throw.
InitExport ==
    /\ enc = EncIdle
    /\ find = FindIdle
    /\ ui = UiStart
    /\ user = 0

NextExport ==
    \/ Pick /\ user < MaxUserActions /\ user' = user + 1
    \/ CropperComplete /\ user < MaxUserActions /\ user' = user + 1
    \/ NudgeFaceY /\ user < MaxUserActions /\ user' = user + 1
    \/ ClearAll /\ user < MaxUserActions /\ user' = user + 1
    \/ ExportClick /\ user < MaxUserActions /\ user' = user + 1
    \/ PickConverted /\ UNCHANGED user
    \/ PickConvertFailed /\ UNCHANGED user
    \/ ImageLoaded /\ UNCHANGED user
    \/ ExportEncoded /\ UNCHANGED user
    \/ ExportThrow /\ UNCHANGED user

SpecExport == InitExport /\ [][NextExport]_vars

\* Auto-alignment across picks: the page from its first render; the user picks
\* files and clears, while conversions, loads and the autoAlign calls the loads
\* start finish in any order.
InitAlign ==
    /\ enc = EncIdle
    /\ find = FindIdle
    /\ ui = UiStart
    /\ user = 0

NextAlign ==
    \/ Pick /\ UNCHANGED user
    \/ PickConverted /\ UNCHANGED user
    \/ PickConvertFailed /\ UNCHANGED user
    \/ ImageLoaded /\ UNCHANGED user
    \/ AutoAlignDone /\ UNCHANGED user
    \/ ClearAll /\ UNCHANGED user

SpecAlign == InitAlign /\ [][NextAlign]_vars

\* The displayed size: a picked raster has loaded; the Cropper reports crop
\* regions, the user exports and clears (MaxUserActions user actions at most),
\* while the estimate timers, the estimates and the searches of an export
\* finish in any order.
InitDisplay ==
    /\ enc = EncIdle
    /\ find = FindIdle
    /\ \E f \in Files : ~f.heic /\ ui = Loaded(f)
    /\ user = 0

NextDisplay ==
    \/ CropperComplete /\ user < MaxUserActions /\ user' = user + 1
    \/ ExportClick /\ user < MaxUserActions /\ user' = user + 1
    \/ ClearAll /\ user < MaxUserActions /\ user' = user + 1
    \/ EstimateTimer /\ UNCHANGED user
    \/ EstimateDone /\ UNCHANGED user
    \/ ExportEncoded /\ UNCHANGED user
    \/ ExportThrow /\ UNCHANGED user

SpecDisplay == InitDisplay /\ [][NextDisplay]_vars

(* ------------------- properties of encodeJpegUnder2MB ---------------- *)

\* The loop's samples (the first 8 blobs of the history) that fitted the budget.
SampledFits ==
    { k \in 1 .. IMin(Len(enc.log), ENC_ITERATIONS) : enc.log[k].size <= MAX_BYTES }

\* C1: whatever sizes the encoder answers, a finished encodeJpegUnder2MB returns
\* a non-null { blob, q }, and if one of the 8 sampled qualities gave a blob
\* within MAX_BYTES then the returned blob is within MAX_BYTES.
C1_ReturnsWithinBudget ==
    enc.pc = "done" =>
        /\ enc.best # Null
        /\ enc.best.blob \in { enc.log[k] : k \in 1 .. Len(enc.log) }
        /\ (SampledFits # {} => enc.best.blob.size <= MAX_BYTES)

\* A finished search whose samples fitted at one quality and did not at another,
\* the fitting sizes not monotone in quality.
C1_Witness ==
    /\ enc.pc = "done"
    /\ \E j, k \in SampledFits :
          j < k /\ enc.log[j].size < enc.log[k].size
    /\ \E j, k \in SampledFits :
          j < k /\ enc.log[j].size > enc.log[k].size
    /\ \E k \in 1 .. ENC_ITERATIONS : enc.log[k].size > MAX_BYTES

\* C4: every best recorded during the 8 iterations is within MAX_BYTES, and
\* when a sampled quality fitted, the returned q is the largest sampled quality
\* whose blob fitted.
C4_BestIsHighestFittingQuality ==
    /\ (enc.pc = "loop" /\ enc.best # Null) => enc.best.blob.size <= MAX_BYTES
    /\ (enc.pc = "done" /\ SampledFits # {}) =>
          /\ \E k \in SampledFits : enc.best.q = enc.log[k].q
          /\ \A k \in SampledFits : RLe(enc.log[k].q, enc.best.q)

\* A finished search that fitted first, then failed at a higher quality, then
\* fitted again in between.
C4_Witness ==
    /\ enc.pc = "done"
    /\ Cardinality(SampledFits) >= 2
    /\ 1 \in SampledFits
    /\ 2 \notin SampledFits
    /\ ENC_ITERATIONS \in SampledFits

\* C10: when none of the 8 sampled qualities fits, exactly one more blob is
\* encoded, at quality 0.5 on the same canvas, and that blob is returned with
\* q = 0.5 whatever its size.
C10_FallbackAtHalf ==
    (enc.pc = "done" /\ SampledFits = {}) =>
        /\ Len(enc.log) = ENC_ITERATIONS + 1
        /\ enc.log[ENC_ITERATIONS + 1].q = Rat(1, 2)
        /\ enc.log[ENC_ITERATIONS + 1].canvas = enc.canvas
        /\ enc.best = [blob |-> enc.log[ENC_ITERATIONS + 1], q |-> Rat(1, 2)]

\* The fall-back blob is over the budget and is returned all the same.
C10_Witness ==
    /\ enc.pc = "done"
    /\ SampledFits = {}
    /\ enc.best.q = Rat(1, 2)
    /\ enc.best.blob.size > MAX_BYTES

(* ------------------ properties of findBestSizeAndEncode -------------- *)

\* C2: when the encoding at a sampled scale fitted the budget, the result is
\* the one produced at the largest such scale and is within MAX_BYTES; a result
\* over MAX_BYTES comes from the fall-back branch only (no sample fitted). The
\* recorded best is that one after every iteration, and so at the return.
C2_LargestFittingScale ==
    /\ find.pc \in {"loop", "done"} =>
          /\ find.maxFit # Null =>
                /\ find.best = [blob |-> find.maxFit.enc.blob, q |-> find.maxFit.enc.q,
                                w |-> find.maxFit.w, h |-> find.maxFit.h]
                /\ find.best.blob.size <= MAX_BYTES
          /\ (find.maxFit = Null /\ find.pc = "loop") => find.best = Null
    /\ (find.pc = "done" /\ find.best.blob.size > MAX_BYTES) =>
          (find.maxFit = Null /\ find.calls = FIND_ITERATIONS + 1)

\* A finished search in which some scales fitted and some did not.
C2_Witness ==
    /\ find.pc = "done"
    /\ find.maxFit # Null
    /\ find.hi # Num(1)
    /\ RLt(Rat(6, 10), find.lo)

\* C3 (as claimed): neither w nor h of the result exceeds the crop region's
\* width and height.
C3_NoUpscaling ==
    find.pc = "done" =>
        /\ RLe(Num(find.best.w), find.cropPx.width)
        /\ RLe(Num(find.best.h), find.cropPx.height)

\* C9: when no sampled scale fits, the result is non-null, w = min(800,
\* floor(crop width)), h = round(w * 4/3) (3h within 1.5 of 4w), and its blob and
\* q are what encodeJpegUnder2MB returns for a canvas of that size; for the
\* 1200x1600 crop that is 800 wide.
C9_FallbackSize ==
    (find.pc = "done" /\ find.maxFit = Null) =>
        /\ find.best # Null
        /\ find.best.w = IMin(800, Floor(find.cropPx.width))
        /\ 2 * Abs(3 * find.best.h - 4 * find.best.w) <= 3
        /\ \E e \in EncodeOutcomes :
              OnCanvas(e, [w |-> find.best.w, h |-> find.best.h])
                  = [blob |-> find.best.blob, q |-> find.best.q]
        /\ (find.cropPx.width = Num(1200) /\ find.cropPx.height = Num(1600)) =>
              (find.best.w <= 800 /\ find.best.h = 1067)

\* The 1200x1600 crop, nothing fitting, the fall-back result over the budget.
C9_Witness ==
    /\ find.pc = "done"
    /\ find.maxFit = Null
    /\ find.cropPx.width = Num(1200)
    /\ find.cropPx.height = Num(1600)
    /\ find.best.blob.size > MAX_BYTES

(* ----------------------- the work of one search ---------------------- *)

\* The most makeJpegBlob calls one inner search makes.
MostEncoderCalls ==
    CHOOSE n \in { EncoderCalls[e] : e \in EncodeOutcomes } :
        \A e \in EncodeOutcomes : EncoderCalls[e] <= n

\* C15: encodeJpegUnder2MB returns after exactly 8 encoder calls, or 9 when none
\* of the 8 fitted; findBestSizeAndEncode returns after exactly 8 inner searches,
\* or 9 when no scale fitted, that is after at most 81 encoder calls;
\* findBestSizeOnly returns after exactly 6 inner searches. While it runs, each
\* search has made as many calls as it has finished iterations, never more than
\* its cap.
C15_BoundedWork ==
    /\ enc.pc = "loop" =>
          /\ Len(enc.log) = enc.i /\ enc.i <= ENC_ITERATIONS
    /\ enc.pc = "done" =>
          Len(enc.log) = IF SampledFits # {} THEN 8 ELSE 9
    /\ find.pc = "loop" =>
          /\ find.calls = find.i /\ find.i <= FIND_ITERATIONS
    /\ find.pc = "done" =>
          /\ find.calls = IF find.maxFit # Null THEN 8 ELSE 9
          /\ find.calls * MostEncoderCalls <= 81
    /\ find.pc = "sizeOnly" =>
          /\ find.searches = find.st.i /\ find.st.i <= SIZE_ONLY_ITERATIONS
    /\ find.pc = "sizeOnlyDone" => find.searches = 6

\* A resolution search has returned after its longest run: no scale fitted, 9
\* inner searches were awaited, each of which can have made 9 encoder calls.
C15_Witness ==
    /\ find.pc = "done"
    /\ find.calls = 9
    /\ find.maxFit = Null
    /\ find.calls * MostEncoderCalls = 81

(* -------------------------- properties of doExport ------------------- *)

\* Two successful exports of the same raster and crop region.
SameExport(a, b) == a.img = b.img /\ a.cropPx = b.cropPx

C12_BusyClearedOutputsKept ==
    /\ [](ui.exports = {} => ~ui.busy)
    /\ [][ (ui'.msg = "export failed"
              /\ (ui.msg # "export failed" \/ ui'.exports # ui.exports)) =>
             /\ ~ui'.busy
             /\ ui'.outUrl = ui.outUrl
             /\ ui'.outInfo = ui.outInfo
             /\ ui'.outBlob = ui.outBlob ]_vars

\* A second export has thrown after a first one succeeded: the failure message
\* is shown, busy is false and the first export's outputs are still there.
C12_Witness ==
    /\ ui.msg = "export failed"
    /\ ~ui.busy
    /\ ui.exports = {}
    /\ Len(ui.exported) = 1
    /\ ui.outUrl # Null /\ ui.outInfo # Null /\ ui.outBlob # Null

(* --------------------- properties of onPick and clearAll ------------- *)

\* What a pick whose conversion fails is claimed to leave alone.
PickKeeps(s, n) ==
    /\ n.srcUrl = s.srcUrl /\ n.imgEl = s.imgEl
    /\ n.crop = s.crop /\ n.zoom = s.zoom /\ n.faceYFrac = s.faceYFrac
    /\ n.outUrl = s.outUrl /\ n.outInfo = s.outInfo /\ n.outBlob = s.outBlob
    /\ n.outWidth = s.outWidth /\ n.outHeight = s.outHeight

\* C13 (as claimed): the two steps of onPick for a file whose conversion fails
\* (up to the awaited conversion, and the catch) leave srcUrl, imgEl, crop, zoom,
\* faceYFrac and the export output as they were.
C13_FailedPickKeepsState ==
    [][ \A f \in Files :
          (f.heic /\ (\/ ui' = RunEffects(ui, onPick(ui, f))
                      \/ (f \in ui.converting
                            /\ ui' = RunEffects(ui, onPickConvertFailed(ui, f))))) =>
             PickKeeps(ui, ui') ]_vars

\* C14 (as claimed): after clearAll, outUrl, outInfo and outBlob are empty and
\* neither the download nor the save action has a result to act on.
C14_ClearEmptiesOutput ==
    [][ ui' = RunEffects(ui, clearAll(ui)) =>
           /\ ui'.outUrl = Null /\ ui'.outInfo = Null /\ ui'.outBlob = Null
           /\ onDownload(ui') = Null
           /\ onMobileSave(ui') = Null ]_vars

\* C17: the steps of two findBestSizeAndEncode invocations never interleave:
\* whatever the user does, at most one export invocation is in progress (and
\* the page is busy while it is), an invocation starts only when none is in
\* progress, and an invocation has rendered exactly one canvas more than the
\* inner searches that have returned to it: the render of the next iteration
\* comes only with the return of the inner search of the one before.
C17_ExportsNeverInterleave ==
    /\ [](/\ Cardinality(ui.exports) <= 1
          /\ ui.exports # {} => ui.busy
          /\ \A inv \in ui.exports :
                /\ inv.renders = Len(inv.answers) + 1
                /\ inv.st.calls = Len(inv.answers))
    /\ [][ /\ (\E inv \in ui'.exports : inv.answers = << >> /\ inv \notin ui.exports)
                => ui.exports = {} /\ ~ui.busy
           /\ \A next \in ui'.exports \ ui.exports :
                next.answers # << >> =>
                    \E inv \in ui.exports :
                        /\ ui.exports = {inv} /\ ui'.exports = {next}
                        /\ next.renders = inv.renders + 1
                        /\ Len(next.answers) = Len(inv.answers) + 1 ]_vars

\* An export is in the middle of its outer search, two inner searches back,
\* and the user has cleared the page in the meantime.
C17_Witness ==
    /\ ui.busy
    /\ ui.imgEl = Null
    /\ \E inv \in ui.exports : Len(inv.answers) = 2 /\ inv.renders = 3

\* C27 (as claimed): the result of an export is not applied when the raster it
\* encoded has been replaced or cleared in the meantime: whenever outUrl,
\* outInfo or outBlob is set, it comes from an export of the raster the page
\* holds now.
C27_OutputOfCurrentRaster ==
    (ui.outUrl # Null \/ ui.outInfo # Null \/ ui.outBlob # Null) =>
        /\ ui.exported # << >>
        /\ ui.exported[Len(ui.exported)].img = ui.imgEl

\* C28 (as claimed): while an export result is shown, the displayed outWidth
\* and outHeight, and the file name when the user has not typed one, are those
\* of the exported blob's pixel size, however estimates and crop changes
\* interleave with the export.
C28_DisplayedSizeIsExportedSize ==
    ui.outUrl # Null =>
        /\ ui.outWidth = ui.outUrl.blob.canvas.w
        /\ ui.outHeight = ui.outUrl.blob.canvas.h
        /\ ~ui.userEditedName =>
              ui.filename = DefaultName(ui.outUrl.blob.canvas.w, ui.outUrl.blob.canvas.h)

(* ------------------ properties of the estimate effect ---------------- *)

\* C16: at most one delayed estimator invocation is pending, and it is the one
\* scheduled last, for the raster and crop region the page holds; a change that
\* arrives while one is pending removes it and schedules a new one; an estimator
\* starts only from the pending timer, with no change since it was scheduled,
\* so a cancelled one never runs.
C16_Debounce ==
    /\ [](/\ Cardinality(ui.timers) <= 1
          /\ \A t \in ui.timers :
                /\ t.seq = ui.estimateSeq
                /\ t.img = ui.imgEl /\ t.cropPx = ui.croppedAreaPx)
    /\ [][ /\ ui'.estimateSeq # ui.estimateSeq =>
                /\ ui'.estimateSeq = ui.estimateSeq + 1
                /\ Cardinality(ui'.timers) = 1
                /\ \A t \in ui'.timers : t.seq = ui'.estimateSeq
           /\ \A e \in ui'.running \ ui.running :
                /\ e \in ui.timers
                /\ e.seq = ui.estimateSeq
                /\ e.img = ui.imgEl /\ e.cropPx = ui.croppedAreaPx ]_vars

\* A pending estimator was cancelled by a change and never ran; the one
\* scheduled in its place has started.
C16_Witness ==
    /\ ui.estimateSeq = 2
    /\ ui.timers = {}
    /\ \E e \in ui.running : e.seq = 2
    /\ Cardinality(ui.running) = 1
    /\ ui.estimated = << >>

\* C25: every scale the loop of findBestSizeAndEncode samples lies strictly
\* between 0.2 and 1, the largest being 1 - 0.8/256 = 319/320; so for a crop at
\* least 2 px wide a result that comes from the loop is strictly narrower than
\* floor(crop width), even when every encoding fitted the budget.
C25_NeverFullResolution ==
    find.pc \in {"loop", "done"} =>
        /\ (find.pc = "loop" /\ find.i < FIND_ITERATIONS) =>
              /\ RLt(Rat(2, 10), FindScale(find))
              /\ RLe(FindScale(find), Rat(319, 320))
        /\ find.maxFit # Null =>
              /\ RLt(Rat(2, 10), find.maxFit.s)
              /\ RLe(find.maxFit.s, Rat(319, 320))
        /\ RLe(Rat(2, 10), find.lo) /\ RLe(find.lo, Rat(319, 320))
        /\ (find.pc = "done" /\ find.maxFit # Null /\ find.maxW >= 2) =>
              find.best.w < find.maxW

\* Every encoding fitted: the search of the 300 x 400 crop has returned the
\* sample at 319/320, 299 wide.
C25_Witness ==
    /\ find.pc = "done"
    /\ find.calls = FIND_ITERATIONS
    /\ find.lo = Rat(319, 320)
    /\ find.maxW = 300
    /\ find.best.w = 299

\* C23 (as claimed): when every sampled scale exceeded the budget (the loop
\* ended without a best, and hi is the last and smallest scale it sampled), the
\* fall-back canvas is not wider and not higher than the smallest candidate of
\* the loop.
C23_FallbackNotLargerThanSamples ==
    (find.pc = "done" /\ find.maxFit = Null /\ find.calls = FIND_ITERATIONS + 1) =>
        /\ find.best.w <= IMax(1, Floor(RMul(Num(find.maxW), find.hi)))
        /\ find.best.h <= IMax(1, Floor(RMul(Num(find.maxH), find.hi)))

(* ------------- properties of the estimate against the export --------- *)

\* C22 (as claimed): for one crop region and an encoder whose blob size is a
\* function of the canvas, the width and height findBestSizeOnly reports are
\* those of the result findBestSizeAndEncode returns.
C22_EstimateIsExportSize ==
    (find.pc = "both" /\ find.estimate # Null /\ find.full.pc = "done") =>
        /\ find.estimate.w = find.full.best.w
        /\ find.estimate.h = find.full.best.h

(* --------------------- properties of the page's resources ------------ *)

\* C21 (as claimed): the object URL of a raster is released when the raster is
\* replaced by a pick or removed by clearAll: the only source object URL still
\* retained is the one of the current srcUrl, so at most one is retained.
C21_SourceUrlReleased ==
    /\ Cardinality(ui.retained) <= 1
    /\ \A url \in ui.retained : ui.srcUrl = url

(* ----------------- properties of autoAlign across picks --------------- *)

\* C24 (as claimed): once every autoAlign invocation has completed, the zoom
\* and crop offset of the page are those autoAlign computes from the current
\* raster's size and face box (found or not), whatever earlier invocations for
\* a replaced raster were still awaiting face detection.
C24_AlignedToCurrentRaster ==
    (ui.imgEl # Null /\ ui.aligns = {}) =>
        \E answer \in DetectorAnswers(ui.imgEl) :
            LET r == autoAlignResult(NaturalWidth(ui.imgEl), NaturalHeight(ui.imgEl),
                                     detectFace(ui.imgEl, answer).face, ui.faceYFrac)
            IN  ui.zoom = r.zoom /\ ui.crop = r.crop

(* ---------------------- properties of the geometry ------------------- *)

\* C6 (as claimed): once everything a nudge of the face slider started has
\* settled (the page was settled when the slider moved, and the user has done
\* nothing since), zoom and crop.x are what they were before the nudge.
C6_NudgeKeepsZoomAndX ==
    (ui.nudged # Null /\ ui.nudged.settled /\ Settled(ui)) =>
        (ui.zoom = ui.nudged.zoom /\ ui.crop.x = ui.nudged.x)

\* C7 (as claimed): the view rectangle autoAlign computes lies inside the raster
\* and has the target aspect ratio within 1e-3.
C7_ViewInsideRaster ==
    ui.view # Null =>
        /\ RLe(Num(0), ui.view.left)
        /\ RLe(RAdd(ui.view.left, ui.view.viewW), Num(ui.view.W))
        /\ RLe(Num(0), ui.view.top)
        /\ RLe(RAdd(ui.view.top, ui.view.viewH), Num(ui.view.H))
        /\ RLe(RSub(RDiv(ui.view.viewW, ui.view.viewH), TARGET_AR), Rat(1, 1000))
        /\ RLe(RSub(TARGET_AR, RDiv(ui.view.viewW, ui.view.viewH)), Rat(1, 1000))

C19_ZoomInRange ==
    /\ RLe(Num(1), ui.zoom) /\ RLe(ui.zoom, Num(5))
    /\ ui.view # Null => RLe(Num(1), ui.view.zoom) /\ RLe(ui.view.zoom, Num(5))

\* autoAlign has found the small face of far.jpg, which asks for more than
\* five times the zoom-1 frame, and has set zoom 5.
C19_Witness ==
    /\ ui.view # Null /\ ui.imgEl # Null
    /\ ui.imgEl.src.file.name = "far.jpg"
    /\ RLt(Num(5), RDiv(Num(ui.view.baseH),
                        RDiv(ui.imgEl.src.file.face.height, DESIRED_FACE_FRAC)))
    /\ ui.view.zoom = Num(5) /\ ui.zoom = Num(5)

\* C20 (as claimed): for a 1000x1000 raster, aspect ratio 3:4 and no face,
\* autoAlign computes baseHeight = 750 and zoom = 1, centres the view on the
\* image centre, and the view's top-left corner is inside the raster.
C20_SquareBaseHeight750 ==
    (ui.view # Null /\ ui.view.W = 1000 /\ ui.view.H = 1000) =>
        /\ ui.view.baseH = 750
        /\ ui.view.zoom = Num(1)
        /\ RAdd(ui.view.left, RDiv(ui.view.viewW, Num(2))) = Num(500)
        /\ RAdd(ui.view.top, RDiv(ui.view.viewH, Num(2))) = Num(500)
        /\ RLe(Num(0), ui.view.left) /\ RLe(ui.view.left, Num(1000))
        /\ RLe(Num(0), ui.view.top) /\ RLe(ui.view.top, Num(1000))

\* C20 (amended): for a 1000x1000 raster, aspect ratio 3:4 and no face,
\* autoAlign computes baseHeight = 1000 (1000 / 0.75 = 1333 exceeds the height;
\* 750 is the width of the view) and zoom = 1, a view 750 wide and 1000 high
\* centred on the image centre, with its top-left corner at (125, 0).
C20_SquareBaseHeight1000 ==
    (ui.view # Null /\ ui.view.W = 1000 /\ ui.view.H = 1000) =>
        /\ ui.view.baseH = 1000
        /\ ui.view.zoom = Num(1)
        /\ ui.view.viewW = Num(750) /\ ui.view.viewH = Num(1000)
        /\ RAdd(ui.view.left, RDiv(ui.view.viewW, Num(2))) = Num(500)
        /\ RAdd(ui.view.top, RDiv(ui.view.viewH, Num(2))) = Num(500)
        /\ ui.view.left = Num(125) /\ ui.view.top = Num(0)

\* autoAlign has finished on the 1000x1000 raster, and the page shows its
\* result: zoom 1 and the crop offset of a view at (125, 0).
C20_Witness ==
    /\ ui.view # Null /\ ui.view.W = 1000 /\ ui.view.H = 1000
    /\ ui.imgEl # Null /\ ui.imgEl.src.file.face = Null
    /\ ui.aligns = {}
    /\ ui.zoom = Num(1) /\ ui.crop = [x |-> Rat(-25, 2), y |-> Num(0)]

\* C8: the new view top nudgeFaceY computes lies in [0, H - viewH], viewH being
\* baseH / zoom for the zoom in effect; so does the one the fixed-size variant
\* computes from the same raster, zoom, crop and fractions.
C8_NudgeTopInRange ==
    ui.nudged # Null =>
        /\ ui.nudged.viewH =
              RDiv(Num(BaseH(NaturalWidth(ui.imgEl), NaturalHeight(ui.imgEl))),
                   ui.nudged.zoom)
        /\ RLe(Num(0), ui.nudged.top)
        /\ RLe(ui.nudged.top, RSub(Num(ui.nudged.H), ui.nudged.viewH))
        /\ ui.nudged.fixedSize.viewH =
              RDiv(Num(FixedSizeBaseH(NaturalWidth(ui.imgEl), NaturalHeight(ui.imgEl))),
                   ui.nudged.zoom)
        /\ RLe(Num(0), ui.nudged.fixedSize.newTop)
        /\ RLe(ui.nudged.fixedSize.newTop,
               RSub(Num(ui.nudged.H), ui.nudged.fixedSize.viewH))

\* A nudge on a zoomed-in view whose wanted top was beyond the lower limit and
\* was clamped to H - viewH.
C8_Witness ==
    /\ ui.nudged # Null
    /\ RLt(Num(1), ui.nudged.zoom)
    /\ ui.nudged.top = RSub(Num(ui.nudged.H), ui.nudged.viewH)
    /\ ui.crop.y = OffsetPercent(ui.nudged.top, ui.nudged.H)

(* ------------------ properties of the preview estimates -------------- *)

\* C5: an estimate that finishes when its sequence number is no longer the
\* last one issued writes nothing: outWidth, outHeight and filename keep their
\* values, so an earlier estimate never overwrites the displayed size once a
\* later one has been issued.
C5_StaleEstimateDiscarded ==
    [][ Len(ui'.estimated) > Len(ui.estimated) =>
           LET e == ui'.estimated[Len(ui'.estimated)]
           IN  /\ e.current = ui.estimateSeq
               /\ e.seq # ui.estimateSeq =>
                     /\ ui'.outWidth = ui.outWidth
                     /\ ui'.outHeight = ui.outHeight
                     /\ ui'.filename = ui.filename ]_vars

\* Three estimates A, B, C were issued; B finished first, then A, both
\* discarded; C finished last and its size is displayed.
C5_Witness ==
    /\ Len(ui.estimated) = 3
    /\ ui.estimated[1].seq = 2 /\ ~ui.estimated[1].applied
    /\ ui.estimated[2].seq = 1 /\ ~ui.estimated[2].applied
    /\ ui.estimated[3].seq = 3 /\ ui.estimated[3].applied
    /\ ui.estimated[1].current = 3
    /\ << ui.outWidth, ui.outHeight >> # << DEFAULT_OUT_WIDTH, DEFAULT_OUT_HEIGHT >>

\* C26 (as claimed): an estimate that completes while the page has no raster or
\* no crop region (after clearAll, or while a replaced raster is still loading)
\* was started before the page became empty, and writes nothing: outWidth,
\* outHeight and filename keep their values.
C26_NoEstimateAfterClear ==
    [][ ( /\ Len(ui'.estimated) > Len(ui.estimated)
          /\ (ui.imgEl = Null \/ ui.croppedAreaPx = Null) ) =>
            /\ ui'.outWidth = ui.outWidth
            /\ ui'.outHeight = ui.outHeight
            /\ ui'.filename = ui.filename ]_vars

====
